---- MODULE Spec2Model ----
(***************************************************************************)
(* Read-through caching helpers of properties/utils.py.                    *)
(*                                                                         *)
(* Strings are sequences of one-character strings, so that key derivation  *)
(* (lower(), replace(" ", "_"), f-string interpolation) and glob matching  *)
(* of cache.keys(pattern) are computed and not assumed.  A queryset is     *)
(* the sequence of the ids of its rows.  A cache entry holds the value     *)
(* that was stored, the remaining time to live and the timeout it was      *)
(* written with.                                                           *)
(***************************************************************************)
EXTENDS Integers, Sequences, FiniteSets, TLC

VARIABLES cache, db, last, callers

vars == <<cache, db, last, callers>>

(***************************************************************************)
(* Bounds                                                                  *)
(***************************************************************************)
\* Property rows the backing store may hold: ids 1..MaxRecords.
MaxRecords == 2

\* Callers that run the same read at the same time.
NumCallers == 2

(***************************************************************************)
(* Program constants                                                       *)
(***************************************************************************)
TTL_ALL == 3600
TTL_LOCATION == 1800
TTL_PRICE == 900
\* A metadata timeout shorter than the one of the entry it describes.
TTL_META_Short == TTL_LOCATION
TTL_META == 3600

\* Time advances in steps of the location timeout: an entry written with
\* TTL_PRICE or TTL_LOCATION is gone after one step, one written with TTL_ALL
\* after two.
TickStep == TTL_LOCATION

\* 'all_properties'
ALL_KEY == <<"a","l","l","_","p","r","o","p","e","r","t","i","e","s">>
\* '_meta'
META_SUFFIX == <<"_","m","e","t","a">>
\* f"{cache_key}_meta"
META_KEY == ALL_KEY \o META_SUFFIX
\* 'properties_location_'
LOCATION_PREFIX ==
    <<"p","r","o","p","e","r","t","i","e","s","_","l","o","c","a","t","i","o","n","_">>
\* 'properties_price_'
PRICE_PREFIX ==
    <<"p","r","o","p","e","r","t","i","e","s","_","p","r","i","c","e","_">>
\* 'property_'
PROPERTY_PREFIX == <<"p","r","o","p","e","r","t","y","_">>

\* The pattern list with 'all_properties_*' in place of 'all_properties'.
CACHE_PATTERNS_Typo ==
    << ALL_KEY \o <<"_","*">>,
       META_KEY,
       LOCATION_PREFIX \o <<"*">>,
       PRICE_PREFIX \o <<"*">>,
       PROPERTY_PREFIX \o <<"*">> >>

\* cache_patterns of invalidate_property_cache, in order.
CACHE_PATTERNS ==
    << ALL_KEY,
       META_KEY,
       LOCATION_PREFIX \o <<"*">>,
       PRICE_PREFIX \o <<"*">>,
       PROPERTY_PREFIX \o <<"*">> >>

(***************************************************************************)
(* Strings                                                                 *)
(***************************************************************************)
UPPERCASE ==
    <<"A","B","C","D","E","F","G","H","I","J","K","L","M",
      "N","O","P","Q","R","S","T","U","V","W","X","Y","Z">>
LOWERCASE ==
    <<"a","b","c","d","e","f","g","h","i","j","k","l","m",
      "n","o","p","q","r","s","t","u","v","w","x","y","z">>

\* str.lower() on one character.
LowerChar(c) ==
    IF \E i \in 1..Len(UPPERCASE) : UPPERCASE[i] = c
    THEN LOWERCASE[CHOOSE i \in 1..Len(UPPERCASE) : UPPERCASE[i] = c]
    ELSE c

\* str.lower()
LowerStr(s) == [i \in 1..Len(s) |-> LowerChar(s[i])]

\* str.replace(old, new) for one-character old and new.
ReplaceChar(s, old, new) == [i \in 1..Len(s) |-> IF s[i] = old THEN new ELSE s[i]]

DigitChar == <<"0","1","2","3","4","5","6","7","8","9">>

\* Decimal digits of a natural number.
RECURSIVE Digits(_)
Digits(n) ==
    IF n < 10 THEN <<DigitChar[n + 1]>>
    ELSE Digits(n \div 10) \o <<DigitChar[(n % 10) + 1]>>

\* A numeric argument: an int, or a float with an integral value.
IntNum(n) == [v |-> n, float |-> FALSE]
FloatNum(n) == [v |-> n, float |-> TRUE]

\* The digits of the value, whatever its type.
FormatNum_Canonical(x) == Digits(x.v)

\* f"{x}": str() of an int, or of a float with an integral value.
FormatNum(x) == IF x.float THEN Digits(x.v) \o <<".","0">> ELSE Digits(x.v)

\* Glob matching of the cache backend's key enumeration ('*' and '?').
\* Matching that stops at the end of the pattern: the rest of the key is
\* not looked at.
RECURSIVE GlobMatch_Unanchored(_, _)
GlobMatch_Unanchored(p, s) ==
    IF p = <<>> THEN TRUE
    ELSE IF Head(p) = "*"
         THEN GlobMatch_Unanchored(Tail(p), s)
                \/ (s # <<>> /\ GlobMatch_Unanchored(p, Tail(s)))
         ELSE /\ s # <<>>
              /\ (Head(p) = "?" \/ Head(p) = Head(s))
              /\ GlobMatch_Unanchored(Tail(p), Tail(s))

RECURSIVE GlobMatch(_, _)
GlobMatch(p, s) ==
    IF p = <<>> THEN s = <<>>
    ELSE IF Head(p) = "*"
         THEN GlobMatch(Tail(p), s) \/ (s # <<>> /\ GlobMatch(p, Tail(s)))
         ELSE /\ s # <<>>
              /\ (Head(p) = "?" \/ Head(p) = Head(s))
              /\ GlobMatch(Tail(p), Tail(s))

(***************************************************************************)
(* Cache keys                                                              *)
(***************************************************************************)
\* f'properties_location_{location.lower().replace(" ", "_")}'
\* The key built from the location as given, without lower().
LocationKey_NoLower(location) ==
    LOCATION_PREFIX \o ReplaceChar(location, " ", "_")

LocationKey(location) ==
    LOCATION_PREFIX \o ReplaceChar(LowerStr(location), " ", "_")

\* f'properties_price_{min_price}_{max_price}'
PriceKey(min_price, max_price) ==
    PRICE_PREFIX \o FormatNum(min_price) \o <<"_">> \o FormatNum(max_price)

(***************************************************************************)
(* Backing store                                                           *)
(***************************************************************************)
RecordIds == 1..MaxRecords

\* Fields of the Property row with a given id.
LocationOf(id) == IF id % 2 = 1 THEN <<"N"," ","Y">> ELSE <<"n","_","y">>
PriceOf(id) == id
CreatedAtOf(id) == id

\* location__icontains=needle
IContains(text, needle) ==
    \E i \in 0..(Len(text) - Len(needle)) :
        SubSeq(LowerStr(text), i + 1, i + Len(needle)) = LowerStr(needle)

\* order_by('-created_at'): newest first.
RECURSIVE OrderByCreatedAtDesc(_)
OrderByCreatedAtDesc(S) ==
    IF S = {} THEN <<>>
    ELSE LET m == CHOOSE x \in S : \A y \in S : CreatedAtOf(x) >= CreatedAtOf(y)
         IN <<m>> \o OrderByCreatedAtDesc(S \ {m})

\* order_by('price'): cheapest first.
RECURSIVE OrderByPrice(_)
OrderByPrice(S) ==
    IF S = {} THEN <<>>
    ELSE LET m == CHOOSE x \in S : \A y \in S : PriceOf(x) <= PriceOf(y)
         IN <<m>> \o OrderByPrice(S \ {m})

\* Property.objects.all().select_related().order_by('-created_at')
QueryAll(d) == OrderByCreatedAtDesc(d)

\* Property.objects.filter(location__icontains=location).order_by('-created_at')
QueryByLocation(d, location) ==
    OrderByCreatedAtDesc({id \in d : IContains(LocationOf(id), location)})

\* Property.objects.filter(price__gte=min_price, price__lte=max_price).order_by('price')
QueryByPrice(d, min_price, max_price) ==
    OrderByPrice({id \in d : PriceOf(id) >= min_price.v /\ PriceOf(id) <= max_price.v})

(***************************************************************************)
(* Inputs                                                                  *)
(***************************************************************************)
\* Locations asked for: "N Y", "n y", "n_y".
LocationInputs == { <<"N"," ","Y">>, <<"n"," ","y">>, <<"n","_","y">> }

\* Price ranges asked for: (1, 2) and (1, 2.0).
PriceInputs == { <<IntNum(1), IntNum(2)>>, <<IntNum(1), FloatNum(2)>> }

\* common_locations of warm_cache: 'New York', 'Los Angeles', 'Chicago',
\* 'Miami', 'Seattle'.
COMMON_LOCATIONS ==
    << <<"N","e","w"," ","Y","o","r","k">>,
       <<"L","o","s"," ","A","n","g","e","l","e","s">>,
       <<"C","h","i","c","a","g","o">>,
       <<"M","i","a","m","i">>,
       <<"S","e","a","t","t","l","e">> >>

\* price_ranges of warm_cache.
PRICE_RANGES ==
    << <<IntNum(0), IntNum(500000)>>,
       <<IntNum(500000), IntNum(1000000)>>,
       <<IntNum(1000000), IntNum(5000000)>> >>

\* The nine keys warm_cache looks up.
WarmKeys ==
    {ALL_KEY}
        \cup {LocationKey(COMMON_LOCATIONS[i]) : i \in 1..Len(COMMON_LOCATIONS)}
        \cup {PriceKey(PRICE_RANGES[i][1], PRICE_RANGES[i][2]) : i \in 1..Len(PRICE_RANGES)}

\* Keys written by other parts of the application: 'property_1'.
ExternalKeys == { PROPERTY_PREFIX \o <<"1">> }

\* Keys of other users of the cache, which none of the patterns of
\* invalidate_property_cache matches: 'session_1' and 'all_properties_v2'.
ForeignKeys ==
    { <<"s","e","s","s","i","o","n","_","1">>, ALL_KEY \o <<"_","v","2">> }

\* Patterns given to clear_pattern: those of invalidate_property_cache,
\* '*' and 'session_*'.
PatternInputs ==
    {CACHE_PATTERNS[i] : i \in 1..Len(CACHE_PATTERNS)}
        \cup { <<"*">>, <<"s","e","s","s","i","o","n","_","*">> }

\* Every key the cache can hold.
KeyUniverse ==
    {ALL_KEY, META_KEY}
        \cup {LocationKey(l) : l \in LocationInputs}
        \cup {PriceKey(r[1], r[2]) : r \in PriceInputs}
        \cup ExternalKeys
        \cup WarmKeys
        \cup ForeignKeys

\* The pairs <<pattern, key>> such that the key matches the pattern.
KeysMatching ==
    {m : m \in {q \in PatternInputs \X KeyUniverse : GlobMatch(q[1], q[2])}}

\* Collaborator calls of a read path that may raise.
FaultPoints == {"get", "ttl", "query", "set", "set_meta"}

\* Failures injected into one read call: the backing store may be down
\* ("query"), and at most one call to the cache backend raises, since the
\* first one that does ends the call or is swallowed just before it returns.
ReadFaults(points) == {F \in SUBSET points : Cardinality(F \ {"query"}) <= 1}

(***************************************************************************)
(* Values                                                                  *)
(***************************************************************************)
\* Python's None.
None == [kind |-> "none", rows |-> <<>>, n |-> 0, asof |-> {}]

\* An evaluated queryset: its rows, and the store contents they were read from.
Rows(r, d) == [kind |-> "rows", rows |-> r, n |-> 0, asof |-> d]

\* Property.objects.all() before evaluation: no query has been run yet.
LazyAll == [kind |-> "lazy", rows |-> <<>>, n |-> 0, asof |-> {}]

\* The metadata dict; 'cached_at' and 'fetch_time' are clock readings and are
\* left out, 'count' is kept.
Metadata(count, d) == [kind |-> "meta", rows |-> <<>>, n |-> count, asof |-> d]

\* An integer result.
Count(c) == [kind |-> "int", rows |-> <<>>, n |-> c, asof |-> {}]

\* A value stored by another part of the application.
Foreign == [kind |-> "foreign", rows |-> <<>>, n |-> 0, asof |-> {}]

(***************************************************************************)
(* Cache backend                                                           *)
(***************************************************************************)
\* cache.get(key)
CacheGet(c, key) == IF key \in DOMAIN c THEN c[key].val ELSE None

\* cache.set(key, value, timeout=timeout): the entry is replaced whole.
CacheSet(c, key, value, timeout) ==
    [k \in DOMAIN c \cup {key} |->
        IF k = key THEN [val |-> value, ttl |-> timeout, timeout |-> timeout]
        ELSE c[k]]

\* cache.keys(pattern): the present keys that match the glob pattern.  The
\* matches of every pattern used are tabulated once over the keys used.
CacheKeys(c, pattern) == {k \in DOMAIN c : <<pattern, k>> \in KeysMatching}

\* cache.delete_many(keys)
CacheDeleteMany(c, keys) == [k \in DOMAIN c \ keys |-> c[k]]

\* What one cache.set call asked for.
SetCall(key, timeout) == [key |-> key, timeout |-> timeout]

\* Result of running one function: the cache it leaves, whether the data key
\* was found, whether an exception left the function, the call that raised,
\* the value returned, the cache.set calls invoked, those that stored an
\* entry, and the number of queries run against the backing store.
Outcome(c, hit, raised, failed, ret, sets, writes, queries) ==
    [cache |-> c, hit |-> hit, raised |-> raised, failed |-> failed, ret |-> ret,
     sets |-> sets, writes |-> writes, queries |-> queries]

(***************************************************************************)
(* Read paths.  F is the set of collaborator calls that raise when they    *)
(* are reached: "get", "ttl", "query", "set", "set_meta".                  *)
(***************************************************************************)
\* get_all_properties giving the entry it hits a new lease of TTL_ALL.
get_all_properties_Touch(c, d, F) ==
    IF "get" \in F
    THEN Outcome(c, FALSE, TRUE, "get", None, <<>>, <<>>, 0)
    ELSE LET cached_data == CacheGet(c, ALL_KEY) IN
    IF cached_data # None
    THEN Outcome(CacheSet(c, ALL_KEY, cached_data, TTL_ALL), TRUE, FALSE,
                 IF "ttl" \in F THEN "ttl" ELSE "none", cached_data, <<>>, <<>>, 0)
    ELSE IF "query" \in F
    THEN Outcome(c, FALSE, TRUE, "query", None, <<>>, <<>>, 1)
    ELSE LET properties_list == QueryAll(d)
             queryset == Rows(properties_list, d)
             set1 == SetCall(ALL_KEY, TTL_ALL)
             set2 == SetCall(META_KEY, TTL_META)
             c1 == CacheSet(c, ALL_KEY, queryset, TTL_ALL)
             c2 == CacheSet(c1, META_KEY, Metadata(Len(properties_list), d), TTL_META)
         IN
    IF "set" \in F
    THEN Outcome(c, FALSE, TRUE, "set", None, <<set1>>, <<>>, 1)
    ELSE IF "set_meta" \in F
    THEN Outcome(c1, FALSE, TRUE, "set_meta", None, <<set1, set2>>, <<set1>>, 1)
    ELSE Outcome(c2, FALSE, FALSE, "none", queryset, <<set1, set2>>, <<set1, set2>>, 1)

\* get_all_properties storing the metadata before the rows.
get_all_properties_MetaFirst(c, d, F) ==
    IF "get" \in F
    THEN Outcome(c, FALSE, TRUE, "get", None, <<>>, <<>>, 0)
    ELSE LET cached_data == CacheGet(c, ALL_KEY) IN
    IF cached_data # None
    THEN Outcome(c, TRUE, FALSE, IF "ttl" \in F THEN "ttl" ELSE "none",
                 cached_data, <<>>, <<>>, 0)
    ELSE IF "query" \in F
    THEN Outcome(c, FALSE, TRUE, "query", None, <<>>, <<>>, 1)
    ELSE LET properties_list == QueryAll(d)
             queryset == Rows(properties_list, d)
             set1 == SetCall(ALL_KEY, TTL_ALL)
             set2 == SetCall(META_KEY, TTL_META)
             c1 == CacheSet(c, META_KEY, Metadata(Len(properties_list), d), TTL_META)
             c2 == CacheSet(c1, ALL_KEY, queryset, TTL_ALL)
         IN
    IF "set_meta" \in F
    THEN Outcome(c, FALSE, TRUE, "set_meta", None, <<set2>>, <<>>, 1)
    ELSE IF "set" \in F
    THEN Outcome(c1, FALSE, TRUE, "set", None, <<set2, set1>>, <<set2>>, 1)
    ELSE Outcome(c2, FALSE, FALSE, "none", queryset, <<set2, set1>>, <<set2, set1>>, 1)

get_all_properties(c, d, F) ==
    IF "get" \in F
    THEN Outcome(c, FALSE, TRUE, "get", None, <<>>, <<>>, 0)
    ELSE LET cached_data == CacheGet(c, ALL_KEY) IN
    IF cached_data # None
    THEN \* cache.ttl() raising is swallowed by the bare except
         Outcome(c, TRUE, FALSE, IF "ttl" \in F THEN "ttl" ELSE "none",
                 cached_data, <<>>, <<>>, 0)
    ELSE IF "query" \in F
    THEN Outcome(c, FALSE, TRUE, "query", None, <<>>, <<>>, 1)
    ELSE LET properties_list == QueryAll(d)
             queryset == Rows(properties_list, d)
             set1 == SetCall(ALL_KEY, TTL_ALL)
             set2 == SetCall(META_KEY, TTL_META)
             c1 == CacheSet(c, ALL_KEY, queryset, TTL_ALL)
             metadata == Metadata(Len(properties_list), d)
             c2 == CacheSet(c1, META_KEY, metadata, TTL_META)
         IN
    IF "set" \in F
    THEN Outcome(c, FALSE, TRUE, "set", None, <<set1>>, <<>>, 1)
    ELSE IF "set_meta" \in F
    THEN Outcome(c1, FALSE, TRUE, "set_meta", None, <<set1, set2>>, <<set1>>, 1)
    ELSE Outcome(c2, FALSE, FALSE, "none", queryset, <<set1, set2>>, <<set1, set2>>, 1)

\* get_properties_by_location without the cache.set call.
get_properties_by_location_NoStore(c, d, F, location) ==
    LET cache_key == LocationKey(location) IN
    IF "get" \in F
    THEN Outcome(c, FALSE, TRUE, "get", None, <<>>, <<>>, 0)
    ELSE LET cached_data == CacheGet(c, cache_key) IN
    IF cached_data # None
    THEN Outcome(c, TRUE, FALSE, "none", cached_data, <<>>, <<>>, 0)
    ELSE IF "query" \in F
    THEN Outcome(c, FALSE, TRUE, "query", None, <<>>, <<>>, 1)
    ELSE Outcome(c, FALSE, FALSE, "none", Rows(QueryByLocation(d, location), d),
                 <<>>, <<>>, 1)

\* The queryset is lazy until cache.set pickles it, which runs the query;
\* the value is stored after that.
get_properties_by_location(c, d, F, location) ==
    LET cache_key == LocationKey(location) IN
    IF "get" \in F
    THEN Outcome(c, FALSE, TRUE, "get", None, <<>>, <<>>, 0)
    ELSE LET cached_data == CacheGet(c, cache_key) IN
    IF cached_data # None
    THEN Outcome(c, TRUE, FALSE, "none", cached_data, <<>>, <<>>, 0)
    ELSE LET set1 == SetCall(cache_key, TTL_LOCATION)
             queryset == Rows(QueryByLocation(d, location), d)
         IN
    IF "query" \in F
    THEN Outcome(c, FALSE, TRUE, "query", None, <<set1>>, <<>>, 1)
    ELSE IF "set" \in F
    THEN Outcome(c, FALSE, TRUE, "set", None, <<set1>>, <<>>, 1)
    ELSE Outcome(CacheSet(c, cache_key, queryset, TTL_LOCATION),
                 FALSE, FALSE, "none", queryset, <<set1>>, <<set1>>, 1)

\* get_properties_by_price_range with a failing cache.set swallowed.
get_properties_by_price_range_Quiet(c, d, F, min_price, max_price) ==
    LET cache_key == PriceKey(min_price, max_price) IN
    IF "get" \in F
    THEN Outcome(c, FALSE, TRUE, "get", None, <<>>, <<>>, 0)
    ELSE LET cached_data == CacheGet(c, cache_key) IN
    IF cached_data # None
    THEN Outcome(c, TRUE, FALSE, "none", cached_data, <<>>, <<>>, 0)
    ELSE LET set1 == SetCall(cache_key, TTL_PRICE)
             queryset == Rows(QueryByPrice(d, min_price, max_price), d)
         IN
    IF "query" \in F
    THEN Outcome(c, FALSE, TRUE, "query", None, <<set1>>, <<>>, 1)
    ELSE IF "set" \in F
    THEN Outcome(c, FALSE, FALSE, "set", queryset, <<set1>>, <<>>, 1)
    ELSE Outcome(CacheSet(c, cache_key, queryset, TTL_PRICE),
                 FALSE, FALSE, "none", queryset, <<set1>>, <<set1>>, 1)

get_properties_by_price_range(c, d, F, min_price, max_price) ==
    LET cache_key == PriceKey(min_price, max_price) IN
    IF "get" \in F
    THEN Outcome(c, FALSE, TRUE, "get", None, <<>>, <<>>, 0)
    ELSE LET cached_data == CacheGet(c, cache_key) IN
    IF cached_data # None
    THEN Outcome(c, TRUE, FALSE, "none", cached_data, <<>>, <<>>, 0)
    ELSE LET set1 == SetCall(cache_key, TTL_PRICE)
             queryset == Rows(QueryByPrice(d, min_price, max_price), d)
         IN
    IF "query" \in F
    THEN Outcome(c, FALSE, TRUE, "query", None, <<set1>>, <<>>, 1)
    ELSE IF "set" \in F
    THEN Outcome(c, FALSE, TRUE, "set", None, <<set1>>, <<>>, 1)
    ELSE Outcome(CacheSet(c, cache_key, queryset, TTL_PRICE),
                 FALSE, FALSE, "none", queryset, <<set1>>, <<set1>>, 1)

\* get_all_with_fallback without the except clause.
get_all_with_fallback_NoCatch(c, d, F) == get_all_properties(c, d, F)

\* get_all_with_fallback whose except clause evaluates the queryset at once,
\* list(Property.objects.all()).
get_all_with_fallback_Eager(c, d, F) ==
    LET o == get_all_properties(c, d, F) IN
    IF o.raised
    THEN IF "query" \in F
         THEN Outcome(o.cache, o.hit, TRUE, "query", None, o.sets, o.writes,
                      o.queries + 1)
         ELSE Outcome(o.cache, o.hit, FALSE, o.failed, Rows(QueryAll(d), d),
                      o.sets, o.writes, o.queries + 1)
    ELSE o

\* PropertyCacheManager.get_all_with_fallback
get_all_with_fallback(c, d, F) ==
    LET o == get_all_properties(c, d, F) IN
    IF o.raised
    THEN \* Property.objects.all() builds a queryset and runs no query
         Outcome(o.cache, o.hit, FALSE, o.failed, LazyAll, o.sets, o.writes, o.queries)
    ELSE o

\* The read that warm_cache makes at position i: get_all_properties, then
\* the common locations, then the price ranges.
WarmRead(c, d, i, F) ==
    IF i = 1 THEN get_all_properties(c, d, F)
    ELSE IF i <= 1 + Len(COMMON_LOCATIONS)
    THEN get_properties_by_location(c, d, F, COMMON_LOCATIONS[i - 1])
    ELSE get_properties_by_price_range(c, d, F,
             PRICE_RANGES[i - 1 - Len(COMMON_LOCATIONS)][1],
             PRICE_RANGES[i - 1 - Len(COMMON_LOCATIONS)][2])

WarmReads == 1 + Len(COMMON_LOCATIONS) + Len(PRICE_RANGES)

\* warm_cache with 'Chicago' missing from common_locations.
RECURSIVE WarmFrom_SkipOne(_, _, _, _, _, _)
WarmFrom_SkipOne(c, d, i, at, F, queries) ==
    IF i > WarmReads
    THEN Outcome(c, FALSE, FALSE, "none", None, <<>>, <<>>, queries)
    ELSE IF i = 4 THEN WarmFrom_SkipOne(c, d, i + 1, at, F, queries)
    ELSE LET o == WarmRead(c, d, i, IF i = at THEN F ELSE {}) IN
    IF o.raised
    THEN Outcome(o.cache, FALSE, TRUE, o.failed, None, <<>>, <<>>, queries + o.queries)
    ELSE WarmFrom_SkipOne(o.cache, d, i + 1, at, F, queries + o.queries)

\* The reads of warm_cache from position i on, one after the other; the
\* read at position `at` runs with the failures F, and an exception of a
\* read leaves warm_cache, which has no handler.
RECURSIVE WarmFrom(_, _, _, _, _, _)
WarmFrom(c, d, i, at, F, queries) ==
    IF i > WarmReads
    THEN Outcome(c, FALSE, FALSE, "none", None, <<>>, <<>>, queries)
    ELSE LET o == WarmRead(c, d, i, IF i = at THEN F ELSE {}) IN
    IF o.raised
    THEN Outcome(o.cache, FALSE, TRUE, o.failed, None, <<>>, <<>>, queries + o.queries)
    ELSE WarmFrom(o.cache, d, i + 1, at, F, queries + o.queries)

\* PropertyCacheManager.warm_cache
warm_cache(c, d, at, F) == WarmFrom(c, d, 1, at, F, 0)

(***************************************************************************)
(* Invalidation                                                            *)
(***************************************************************************)
\* The loop without the try/except: the first failure ends it.
RECURSIVE InvalidateFromAbort(_, _, _, _, _, _)
InvalidateFromAbort(c, i, invalidated_count, failing, stage, caught) ==
    IF i > Len(CACHE_PATTERNS)
    THEN [cache |-> c, raised |-> FALSE, ret |-> Count(invalidated_count),
          caught |-> caught]
    ELSE LET keys == CacheKeys(c, CACHE_PATTERNS[i]) IN
    IF i \in failing /\ (stage = "keys" \/ keys # {})
    THEN [cache |-> c, raised |-> TRUE, ret |-> None, caught |-> caught \cup {i}]
    ELSE InvalidateFromAbort(CacheDeleteMany(c, keys), i + 1,
                             invalidated_count + Cardinality(keys), failing, stage,
                             caught)

\* The loop counting the keys of a pattern before it deletes them.
RECURSIVE InvalidateFrom_CountFirst(_, _, _, _, _, _)
InvalidateFrom_CountFirst(c, i, invalidated_count, failing, stage, caught) ==
    IF i > Len(CACHE_PATTERNS)
    THEN [cache |-> c, raised |-> FALSE, ret |-> Count(invalidated_count),
          caught |-> caught]
    ELSE LET keys == CacheKeys(c, CACHE_PATTERNS[i]) IN
    IF i \in failing /\ stage = "keys"
    THEN InvalidateFrom_CountFirst(c, i + 1, invalidated_count, failing, stage,
                                   caught \cup {i})
    ELSE IF keys = {}
    THEN InvalidateFrom_CountFirst(c, i + 1, invalidated_count, failing, stage, caught)
    ELSE IF i \in failing
    THEN InvalidateFrom_CountFirst(
             IF stage = "delete_many_late" THEN CacheDeleteMany(c, keys) ELSE c,
             i + 1, invalidated_count + Cardinality(keys), failing, stage,
             caught \cup {i})
    ELSE InvalidateFrom_CountFirst(CacheDeleteMany(c, keys), i + 1,
                                   invalidated_count + Cardinality(keys), failing,
                                   stage, caught)

\* The loop of invalidate_property_cache from pattern i on.  A pattern in
\* failing raises in cache.keys (stage "keys") or in cache.delete_many,
\* reached only when some key matched: before the backend removed anything
\* (stage "delete_many") or after it removed the keys, the reply being lost
\* (stage "delete_many_late").  The except clause logs it and the loop goes
\* on.
RECURSIVE InvalidateFrom(_, _, _, _, _, _)
InvalidateFrom(c, i, invalidated_count, failing, stage, caught) ==
    IF i > Len(CACHE_PATTERNS)
    THEN [cache |-> c, raised |-> FALSE, ret |-> Count(invalidated_count),
          caught |-> caught]
    ELSE LET pattern == CACHE_PATTERNS[i] IN
    IF i \in failing /\ stage = "keys"
    THEN InvalidateFrom(c, i + 1, invalidated_count, failing, stage, caught \cup {i})
    ELSE LET keys == CacheKeys(c, pattern) IN
    IF keys = {}
    THEN InvalidateFrom(c, i + 1, invalidated_count, failing, stage, caught)
    ELSE IF i \in failing
    THEN InvalidateFrom(IF stage = "delete_many_late" THEN CacheDeleteMany(c, keys) ELSE c,
                        i + 1, invalidated_count, failing, stage, caught \cup {i})
    ELSE InvalidateFrom(CacheDeleteMany(c, keys), i + 1,
                        invalidated_count + Cardinality(keys), failing, stage, caught)

\* Where a failing pattern raises.
FailureStages == {"keys", "delete_many", "delete_many_late"}

invalidate_property_cache(c, failing, stage) ==
    InvalidateFrom(c, 1, 0, failing, stage, {})

\* PropertyCacheManager.clear_pattern; fault is "none", "keys",
\* "delete_many" or "delete_many_late".  When no key matches, the function ends without a return
\* statement and yields None.
clear_pattern(c, pattern, fault) ==
    IF fault = "keys"
    THEN [cache |-> c, raised |-> FALSE, ret |-> Count(0), caught |-> {1}]
    ELSE LET keys == CacheKeys(c, pattern) IN
    IF keys = {}
    THEN [cache |-> c, raised |-> FALSE, ret |-> None, caught |-> {}]
    ELSE IF fault = "delete_many"
    THEN [cache |-> c, raised |-> FALSE, ret |-> Count(0), caught |-> {1}]
    ELSE IF fault = "delete_many_late"
    THEN [cache |-> CacheDeleteMany(c, keys), raised |-> FALSE, ret |-> Count(0),
          caught |-> {1}]
    ELSE [cache |-> CacheDeleteMany(c, keys), raised |-> FALSE,
          ret |-> Count(Cardinality(keys)), caught |-> {}]

(***************************************************************************)
(* Statistics                                                              *)
(***************************************************************************)
\* The dict get_cache_stats returns: stats['all_properties'] with its
\* 'cached', 'ttl' and 'metadata', and the dicts 'locations' and
\* 'price_ranges'.
Stats(cached, ttl, metadata) ==
    [kind |-> "stats", rows |-> <<>>, n |-> 0, asof |-> {},
     cached |-> cached, ttl |-> ttl, metadata |-> metadata,
     locations |-> <<>>, price_ranges |-> <<>>]

\* get_cache_stats looking the metadata up whether or not the rows are cached.
get_cache_stats_MetaAlways(c, F) ==
    IF F # {}
    THEN Outcome(c, FALSE, TRUE, CHOOSE f \in F : TRUE, None, <<>>, <<>>, 0)
    ELSE LET metadata == CacheGet(c, META_KEY) IN
    IF CacheGet(c, ALL_KEY) # None
    THEN Outcome(c, TRUE, FALSE, "none", Stats(TRUE, Count(c[ALL_KEY].ttl), metadata),
                 <<>>, <<>>, 0)
    ELSE Outcome(c, FALSE, FALSE, "none", Stats(FALSE, None, metadata), <<>>, <<>>, 0)

\* get_cache_stats.  F holds the call that raises, if any: the cache.get of
\* the rows ("get"), cache.ttl ("ttl") or the cache.get of the metadata
\* ("get_meta"); nothing catches it.
get_cache_stats(c, F) ==
    IF "get" \in F
    THEN Outcome(c, FALSE, TRUE, "get", None, <<>>, <<>>, 0)
    ELSE IF CacheGet(c, ALL_KEY) = None
    THEN Outcome(c, FALSE, FALSE, "none", Stats(FALSE, None, None), <<>>, <<>>, 0)
    ELSE IF "ttl" \in F
    THEN Outcome(c, TRUE, TRUE, "ttl", None, <<>>, <<>>, 0)
    ELSE LET ttl == c[ALL_KEY].ttl IN
    IF "get_meta" \in F
    THEN Outcome(c, TRUE, TRUE, "get_meta", None, <<>>, <<>>, 0)
    ELSE LET metadata == CacheGet(c, META_KEY) IN
         Outcome(c, TRUE, FALSE, "none",
                 Stats(TRUE, IF ttl # 0 THEN Count(ttl) ELSE None, metadata),
                 <<>>, <<>>, 0)

(***************************************************************************)
(* State machine                                                           *)
(***************************************************************************)
ReadOps ==
    {"get_all_properties", "get_properties_by_location", "get_properties_by_price_range"}

\* The last call made: the function, its arguments, whether the backing
\* store was down during it, the patterns whose failure was caught, what the
\* call did, and what came just before it ("same_call_miss": the same read
\* with the same arguments, which missed and returned; "equal_value_miss":
\* the same price read with bounds of equal value written otherwise, which
\* missed and returned; "invalidate":
\* invalidate_property_cache; "other").
Call(op, location, range, pattern, down, caught, hit, raised, failed, ret, sets, writes, queries, prev) ==
    [op |-> op, location |-> location, range |-> range, pattern |-> pattern,
     down |-> down, caught |-> caught, hit |-> hit, raised |-> raised,
     failed |-> failed, ret |-> ret, sets |-> sets, writes |-> writes,
     queries |-> queries, prev |-> prev]

NoRange == <<IntNum(0), IntNum(0)>>

\* What the call before (op, location, range) was.
Before(op, location, range) ==
    IF /\ op \in ReadOps
       /\ last.op = op /\ last.location = location /\ last.range = range
       /\ ~last.hit /\ ~last.raised
    THEN "same_call_miss"
    ELSE IF /\ op = "get_properties_by_price_range" /\ last.op = op
            /\ last.range # range
            /\ \A i \in 1..2 : last.range[i].v = range[i].v
            /\ ~last.hit /\ ~last.raised
    THEN "equal_value_miss"
    ELSE IF last.op = "invalidate_property_cache" THEN "invalidate"
    ELSE "other"

\* A read call and its outcome.
ReadCall(op, location, range, F, o) ==
    Call(op, location, range, <<>>, "query" \in F, {}, o.hit, o.raised, o.failed,
         o.ret, o.sets, o.writes, o.queries, Before(op, location, range))

\* A step that is not a read call.
OtherCall(op, pattern, caught, raised, ret) ==
    Call(op, <<>>, NoRange, pattern, FALSE, caught, FALSE, raised, "none", ret,
         <<>>, <<>>, 0, "other")

Init ==
    /\ cache = [k \in {} |-> None]
    /\ db = RecordIds
    /\ last = OtherCall("init", <<>>, {}, FALSE, None)
    /\ callers = <<>>

GetAll ==
    \E F \in ReadFaults(FaultPoints) :
        \E o \in {get_all_properties(cache, db, F)} :
        /\ cache' = o.cache
        /\ last' = ReadCall("get_all_properties", <<>>, NoRange, F, o)
        /\ UNCHANGED <<db, callers>>

GetByLocation ==
    \E location \in LocationInputs, F \in ReadFaults({"get", "query", "set"}) :
        \E o \in {get_properties_by_location(cache, db, F, location)} :
        /\ cache' = o.cache
        /\ last' = ReadCall("get_properties_by_location", location, NoRange, F, o)
        /\ UNCHANGED <<db, callers>>

GetByPriceRange ==
    \E range \in PriceInputs, F \in ReadFaults({"get", "query", "set"}) :
        \E o \in {get_properties_by_price_range(cache, db, F, range[1], range[2])} :
        /\ cache' = o.cache
        /\ last' = ReadCall("get_properties_by_price_range", <<>>, range, F, o)
        /\ UNCHANGED <<db, callers>>

GetAllWithFallback ==
    \E F \in ReadFaults(FaultPoints) :
        \E o \in {get_all_with_fallback(cache, db, F)} :
        /\ cache' = o.cache
        /\ last' = ReadCall("get_all_with_fallback", <<>>, NoRange, F, o)
        /\ UNCHANGED <<db, callers>>

Invalidate ==
    \E failing \in SUBSET (1..Len(CACHE_PATTERNS)), stage \in FailureStages :
        \E r \in {invalidate_property_cache(cache, failing, stage)} :
        /\ cache' = r.cache
        /\ last' = [OtherCall("invalidate_property_cache", <<>>, r.caught, r.raised, r.ret)
                        EXCEPT !.failed = IF r.caught = {} THEN "none" ELSE stage]
        /\ UNCHANGED <<db, callers>>

ClearPattern ==
    \E pattern \in PatternInputs, fault \in {"none"} \cup FailureStages :
        \E r \in {clear_pattern(cache, pattern, fault)} :
        /\ cache' = r.cache
        /\ last' = OtherCall("clear_pattern", pattern, r.caught, r.raised, r.ret)
        /\ UNCHANGED <<db, callers>>

\* Another part of the application stores an entry of its own under one of
\* its keys, with a timeout of its choice.
ExternalSet ==
    \E key \in ExternalKeys, timeout \in {TTL_ALL} :
        /\ cache' = CacheSet(cache, key, Foreign, timeout)
        /\ last' = OtherCall("external_set", <<>>, {}, FALSE, None)
        /\ UNCHANGED <<db, callers>>

\* TickStep seconds pass: the backend drops the entries whose time to live
\* has run out.
Expire(c) ==
    LET alive == {k \in DOMAIN c : c[k].ttl - TickStep > 0}
    IN [k \in alive |-> [c[k] EXCEPT !.ttl = c[k].ttl - TickStep]]

Tick ==
    /\ DOMAIN cache # {}
    /\ cache' = Expire(cache)
    /\ last' = OtherCall("tick", <<>>, {}, FALSE, None)
    /\ UNCHANGED <<db, callers>>

Next ==
    \/ GetAll
    \/ GetByLocation
    \/ GetByPriceRange
    \/ GetAllWithFallback
    \/ Invalidate
    \/ ClearPattern
    \/ ExternalSet
    \/ Tick

Spec == Init /\ [][Next]_vars

(***************************************************************************)
(* Warm-up: warm_cache, with expiry and invalidation in between.           *)
(***************************************************************************)
\* Either nothing fails, or one collaborator call of one read does.
WarmCache ==
    \E at \in 0..WarmReads, point \in {"get", "query", "set"} :
        \E o \in {warm_cache(cache, db, at, {point})} :
        /\ at = 0 => point = "get"
        /\ cache' = o.cache
        /\ last' = Call("warm_cache", <<>>, NoRange, <<>>, FALSE, {}, FALSE, o.raised,
                        o.failed, o.ret, <<>>, <<>>, o.queries, "other")
        /\ UNCHANGED <<db, callers>>

NextWarm ==
    \/ WarmCache
    \/ Invalidate
    \/ Tick

SpecWarm == Init /\ [][NextWarm]_vars

(***************************************************************************)
(* Concurrent callers.  Every caller runs the same read; a step is one     *)
(* call to the cache backend or to the backing store, and the steps of     *)
(* the callers interleave freely: the reads take no lock.                  *)
(***************************************************************************)
Callers == 1..NumCallers

\* The cache key of a read.
KeyOfRead(r) ==
    IF r.op = "get_properties_by_location" THEN LocationKey(r.location)
    ELSE IF r.op = "get_properties_by_price_range"
         THEN PriceKey(r.range[1], r.range[2])
         ELSE ALL_KEY

\* The rows the query of a read selects from the store contents d.
QueryOfRead(r, d) ==
    IF r.op = "get_properties_by_location" THEN QueryByLocation(d, r.location)
    ELSE IF r.op = "get_properties_by_price_range"
         THEN QueryByPrice(d, r.range[1], r.range[2])
         ELSE QueryAll(d)

\* The reads the callers may run: function, location, price range.
RaceReads ==
    {<<"get_all_properties", <<>>, NoRange>>}
        \cup {<<"get_properties_by_location", l, NoRange>> : l \in LocationInputs}
        \cup {<<"get_properties_by_price_range", <<>>, r>> : r \in PriceInputs}

\* A caller: the read it runs, where it stands in it ("get", "query",
\* "set", "set_meta", "done"), whether its cache.get found the key, the rows
\* it holds, and the queries and data-key cache.set calls it has made.
Caller(read, pc, hit, rows, queries, sets) ==
    [op |-> read[1], location |-> read[2], range |-> read[3], pc |-> pc,
     hit |-> hit, rows |-> rows, queries |-> queries, sets |-> sets]

ReadOf(caller) == <<caller.op, caller.location, caller.range>>

\* The timeout of the data key of a read.
TimeoutOf(op) ==
    IF op = "get_properties_by_location" THEN TTL_LOCATION
    ELSE IF op = "get_properties_by_price_range" THEN TTL_PRICE
    ELSE TTL_ALL

InitRace ==
    /\ cache = [k \in {} |-> None]
    /\ db = RecordIds
    /\ last = OtherCall("init", <<>>, {}, FALSE, None)
    /\ \E read \in RaceReads :
          callers = [p \in Callers |-> Caller(read, "get", FALSE, None, 0, 0)]

\* cached_data = cache.get(cache_key), and the return on a hit.
RaceGet(p) ==
    /\ callers[p].pc = "get"
    /\ \E cached_data \in {CacheGet(cache, KeyOfRead(callers[p]))} :
          callers' = [callers EXCEPT ![p] =
              IF cached_data # None
              THEN Caller(ReadOf(@), "done", TRUE, cached_data, @.queries, @.sets)
              ELSE Caller(ReadOf(@), "query", FALSE, None, @.queries, @.sets)]
    /\ UNCHANGED <<cache, db, last>>

\* The query of a caller that re-reads the cache first and returns what it
\* finds there.
RaceQuery_Recheck(p) ==
    /\ callers[p].pc = "query"
    /\ \E cached_data \in {CacheGet(cache, KeyOfRead(callers[p]))} :
          callers' = [callers EXCEPT ![p] =
              IF cached_data # None
              THEN Caller(ReadOf(@), "done", FALSE, cached_data, @.queries, @.sets)
              ELSE Caller(ReadOf(@), "set", FALSE, Rows(QueryOfRead(@, db), db),
                          @.queries + 1, @.sets)]
    /\ UNCHANGED <<cache, db, last>>

\* The query against the backing store, after a miss.
RaceQuery(p) ==
    /\ callers[p].pc = "query"
    /\ callers' = [callers EXCEPT ![p] =
          Caller(ReadOf(@), "set", FALSE, Rows(QueryOfRead(@, db), db),
                 @.queries + 1, @.sets)]
    /\ UNCHANGED <<cache, db, last>>

\* cache.set(cache_key, queryset, timeout=...)
RaceSet(p) ==
    /\ callers[p].pc = "set"
    /\ cache' = CacheSet(cache, KeyOfRead(callers[p]), callers[p].rows,
                         TimeoutOf(callers[p].op))
    /\ callers' = [callers EXCEPT ![p] =
          Caller(ReadOf(@),
                 IF @.op = "get_all_properties" THEN "set_meta" ELSE "done",
                 FALSE, @.rows, @.queries, @.sets + 1)]
    /\ UNCHANGED <<db, last>>

\* cache.set(cache_meta_key, metadata, timeout=3600), and the return.
RaceSetMeta(p) ==
    /\ callers[p].pc = "set_meta"
    /\ cache' = CacheSet(cache, META_KEY,
                         Metadata(Len(callers[p].rows.rows), callers[p].rows.asof),
                         TTL_META)
    /\ callers' = [callers EXCEPT ![p] =
          Caller(ReadOf(@), "done", FALSE, @.rows, @.queries, @.sets)]
    /\ UNCHANGED <<db, last>>

NextRace ==
    \/ \E p \in Callers : RaceGet(p)
    \/ \E p \in Callers : RaceQuery(p)
    \/ \E p \in Callers : RaceSet(p)
    \/ \E p \in Callers : RaceSetMeta(p)
    \/ Tick

SpecRace == InitRace /\ [][NextRace]_vars

(***************************************************************************)
(* Reads, clear_pattern and the statistics                                 *)
(***************************************************************************)
GetCacheStats ==
    \E F \in {{}, {"get"}, {"ttl"}, {"get_meta"}} :
        \E o \in {get_cache_stats(cache, F)} :
        /\ cache' = o.cache
        /\ last' = Call("get_cache_stats", <<>>, NoRange, <<>>, FALSE, {}, o.hit, o.raised,
                        o.failed, o.ret, o.sets, o.writes, o.queries, "other")
        /\ UNCHANGED <<db, callers>>

NextStats ==
    \/ GetAll
    \/ GetByLocation
    \/ GetByPriceRange
    \/ ClearPattern
    \/ Tick
    \/ GetCacheStats

SpecStats == Init /\ [][NextStats]_vars

(***************************************************************************)
(* Invalidation beside other users of the cache                            *)
(***************************************************************************)
\* Another user of the cache stores an entry under one of its keys.
ForeignSet ==
    \E key \in ForeignKeys \cup ExternalKeys :
        /\ cache' = CacheSet(cache, key, Foreign, TTL_ALL)
        /\ last' = OtherCall("external_set", <<>>, {}, FALSE, None)
        /\ UNCHANGED <<db, callers>>

NextFrame ==
    \/ GetAll
    \/ ForeignSet
    \/ Invalidate
    \/ Tick

SpecFrame == Init /\ [][NextFrame]_vars

(***************************************************************************)
(* Locations spelled in several cases                                      *)
(***************************************************************************)
\* str.upper() on one character: a letter of LOWERCASE becomes the letter
\* of UPPERCASE, the sharp s becomes two letters.
UpperChar(c) ==
    IF \E i \in 1..Len(LOWERCASE) : LOWERCASE[i] = c
    THEN <<UPPERCASE[CHOOSE i \in 1..Len(LOWERCASE) : LOWERCASE[i] = c]>>
    ELSE IF c = "ß" THEN <<"S", "S">>
    ELSE <<c>>

\* str.upper()
RECURSIVE UpperStr(_)
UpperStr(s) == IF s = <<>> THEN <<>> ELSE UpperChar(Head(s)) \o UpperStr(Tail(s))

\* One string is the other in upper case or in lower case.
CaseVariant(s, t) ==
    \/ t \in {UpperStr(s), LowerStr(s)}
    \/ s \in {UpperStr(t), LowerStr(t)}

\* Locations asked for: 'N Y', 'n y', and 'ß' with its upper case 'SS'.
LocationCaseInputs == { <<"N"," ","Y">>, <<"n"," ","y">>, <<"ß">>, <<"S","S">> }

\* What the call before a read of this location was: the same read for
\* another spelling with the same lower case, or for a case variant with
\* another lower case, which missed and returned.
BeforeSpelling(location) ==
    IF /\ last.op = "get_properties_by_location"
       /\ ~last.hit /\ ~last.raised /\ last.location # location
       /\ CaseVariant(last.location, location)
    THEN IF LowerStr(last.location) = LowerStr(location)
         THEN "same_lower_miss" ELSE "other_lower_miss"
    ELSE Before("get_properties_by_location", location, NoRange)

GetByLocationSpelled ==
    \E location \in LocationCaseInputs, F \in ReadFaults({"get", "query", "set"}) :
        \E o \in {get_properties_by_location(cache, db, F, location)} :
        /\ cache' = o.cache
        /\ last' = [ReadCall("get_properties_by_location", location, NoRange, F, o)
                        EXCEPT !.prev = BeforeSpelling(location)]
        /\ UNCHANGED <<db, callers>>

NextCase ==
    \/ GetByLocationSpelled
    \/ Tick

SpecCase == Init /\ [][NextCase]_vars

(***************************************************************************)
(* Properties                                                              *)
(***************************************************************************)
HasPrefix(s, p) == Len(s) >= Len(p) /\ SubSeq(s, 1, Len(p)) = p

\* The cache key a read call looks up.
KeyOf(call) ==
    IF call.op = "get_properties_by_location" THEN LocationKey(call.location)
    ELSE IF call.op = "get_properties_by_price_range"
         THEN PriceKey(call.range[1], call.range[2])
         ELSE ALL_KEY

\* The cache.set calls of a call that name the given key.
SetsOn(call, key) == Cardinality({i \in 1..Len(call.sets) : call.sets[i].key = key})

\* The call just made repeats the one before it, which missed and returned,
\* and returns as well.
RepeatedRead ==
    /\ last.op \in ReadOps /\ ~last.hit /\ ~last.raised
    /\ last'.op = last.op /\ last'.location = last.location /\ last'.range = last.range
    /\ ~last'.raised

\* C1, as stated: a read called twice in a row on an absent key invokes
\* cache.set exactly once over the two calls, and the second call is a hit
\* that runs no query.  Stated here for the calls that return, which is
\* where get_all_properties already breaks it.
C1_SetInvokedOnce ==
    [][RepeatedRead =>
          /\ Len(last.sets) + Len(last'.sets) = 1
          /\ last'.hit
          /\ last'.queries = 0]_vars

\* C1, amended: when both calls return, cache.set is invoked exactly once on
\* the key looked up, the second call is a hit that runs no query, and the
\* two calls invoke cache.set once in all for the location and price reads
\* and twice for get_all_properties, which also writes 'all_properties_meta'.
C1_TargetKeySetOnce ==
    [][RepeatedRead =>
          /\ SetsOn(last, KeyOf(last)) + SetsOn(last', KeyOf(last)) = 1
          /\ Len(last.sets) + Len(last'.sets)
                 = (IF last.op = "get_all_properties" THEN 2 ELSE 1)
          /\ last.writes = last.sets
          /\ last'.hit
          /\ last'.queries = 0]_vars

\* A location read that hits right after the same read missed and returned.
C1_Witness ==
    /\ last.op = "get_properties_by_location"
    /\ last.prev = "same_call_miss"
    /\ last.hit /\ ~last.raised

\* C2: a failing write of 'all_properties_meta' does not fail
\* get_all_properties, which still returns the rows it fetched.
C2_MetadataWriteBestEffort ==
    (last.op = "get_all_properties" /\ last.failed = "set_meta")
        => (~last.raised /\ last.ret.kind = "rows")

OwnQuery(call, d) ==
    IF call.op = "get_properties_by_location" THEN QueryByLocation(d, call.location)
    ELSE IF call.op = "get_properties_by_price_range"
         THEN QueryByPrice(d, call.range[1], call.range[2])
         ELSE QueryAll(d)

\* C4: a read that hits returns what its own query returned from the store
\* contents the entry was read from; inputs that derive the same key select
\* the same rows.
C4_HitReflectsOwnQuery ==
    (last.op \in ReadOps /\ last.hit)
        => last.ret.rows = OwnQuery(last, last.ret.asof)

\* C5: with the backing store up, get_all_with_fallback returns a queryset
\* and raises nothing, whichever cache call fails.
C5_FallbackWithHealthyStore ==
    (last.op = "get_all_with_fallback" /\ ~last.down)
        => (~last.raised /\ last.ret.kind \in {"rows", "lazy"})

\* The fallback was taken after a cache failure, with the store up.
C5_Witness ==
    /\ last.op = "get_all_with_fallback"
    /\ ~last.down
    /\ last.failed \in {"get", "set", "set_meta"}
    /\ ~last.raised /\ last.ret.kind = "lazy"

\* C6: no error leaves get_all_with_fallback, whatever fails.
C6_FallbackTotal ==
    last.op = "get_all_with_fallback" => ~last.raised

\* The fallback was taken with the cache failing and the store down.
C6_Witness ==
    /\ last.op = "get_all_with_fallback"
    /\ last.down
    /\ last.failed \in {"get", "query"}
    /\ ~last.raised /\ last.ret.kind = "lazy"

\* C7: clear_pattern returns the number of keys it removed: the number of
\* matches, zero when nothing matches, zero when the backend raises.
C7_ClearPatternReturnsCount ==
    [][last'.op = "clear_pattern" =>
          /\ ~last'.raised
          /\ last'.ret.kind = "int"
          /\ last'.ret.n = Cardinality(DOMAIN cache \ DOMAIN cache')]_vars

\* C8: a failure on one pattern of invalidate_property_cache is caught, and
\* every pattern that did not fail has none of its keys left.
C8_PatternsIndependent ==
    last.op = "invalidate_property_cache" =>
        /\ ~last.raised
        /\ \A i \in 1..5 :
              i \notin last.caught =>
                  \A k \in DOMAIN cache : ~GlobMatch(CACHE_PATTERNS[i], k)

\* The first pattern failed and kept its key; later patterns removed theirs.
C8_Witness ==
    /\ last.op = "invalidate_property_cache"
    /\ last.caught = {1}
    /\ ALL_KEY \in DOMAIN cache
    /\ last.ret.n >= 2

\* The timeout each key of this component is to be written with.
ExpectedTimeout(key) ==
    IF key = ALL_KEY \/ key = META_KEY THEN 3600
    ELSE IF HasPrefix(key, LOCATION_PREFIX) THEN 1800
    ELSE IF HasPrefix(key, PRICE_PREFIX) THEN 900
    ELSE 0

\* C9: every cache.set of this component carries the timeout of its path,
\* 3600 for 'all_properties' and 'all_properties_meta', 1800 for a location
\* key, 900 for a price key.
C9_TimeoutOfPath ==
    /\ \A i \in 1..Len(last.sets) :
          last.sets[i].timeout = ExpectedTimeout(last.sets[i].key)
    /\ \A k \in DOMAIN cache \ ExternalKeys :
          cache[k].timeout = ExpectedTimeout(k)

\* All four kinds of entry are in the cache.
C9_Witness ==
    /\ {ALL_KEY, META_KEY} \subseteq DOMAIN cache
    /\ \E k \in DOMAIN cache : HasPrefix(k, LOCATION_PREFIX)
    /\ \E k \in DOMAIN cache : HasPrefix(k, PRICE_PREFIX)

\* C10: a read whose query, cache.get or cache.set on the data key fails
\* raises, has queried the backing store at most once, and has written
\* nothing to the cache.
C10_ReadsFailLoud ==
    [][(last'.op \in ReadOps /\ last'.failed \in {"get", "query", "set"})
          => /\ last'.raised
             /\ last'.queries <= 1
             /\ last'.writes = <<>>
             /\ cache' = cache]_vars

\* A price read whose cache.set failed after its query.
C10_Witness ==
    /\ last.op = "get_properties_by_price_range"
    /\ last.failed = "set"
    /\ last.raised /\ last.queries = 1

\* C11: warm_cache started with its nine keys absent and nothing failing
\* runs exactly nine queries and leaves the nine keys present.
C11_WarmNineQueries ==
    [][(/\ last'.op = "warm_cache" /\ last'.failed = "none"
        /\ WarmKeys \cap DOMAIN cache = {})
          => /\ ~last'.raised
             /\ last'.queries = 9
             /\ Cardinality(WarmKeys) = 9
             /\ WarmKeys \subseteq DOMAIN cache']_vars

\* warm_cache has just run its nine queries.
C11_Witness ==
    /\ last.op = "warm_cache"
    /\ ~last.raised /\ last.queries = 9
    /\ WarmKeys \subseteq DOMAIN cache

\* C12: the reads take no lock and do not look at the cache again after a
\* miss: a caller that missed runs its query and writes the key whatever the
\* other callers did in between, so that two callers that both missed make
\* two queries and two writes for one key.
C12_MissedCallersAllFetch ==
    \A p \in DOMAIN callers :
        (callers[p].pc = "done" /\ ~callers[p].hit)
            => (callers[p].queries = 1 /\ callers[p].sets = 1)

\* Two callers of the same read have both missed, queried and written.
C12_Witness ==
    \E p, q \in DOMAIN callers :
        /\ p # q
        /\ ReadOf(callers[p]) = ReadOf(callers[q])
        /\ callers[p].pc = "done" /\ callers[q].pc = "done"
        /\ ~callers[p].hit /\ ~callers[q].hit
        /\ callers[p].queries + callers[q].queries = 2
        /\ callers[p].sets + callers[q].sets = 2

\* C13, as stated: between operations 'all_properties_meta' is in the cache
\* only if 'all_properties' is.
C13_MetaOnlyWithParent ==
    META_KEY \in DOMAIN cache => ALL_KEY \in DOMAIN cache

\* The call just made stored an entry under the key.
Wrote(call, key) == \E i \in 1..Len(call.writes) : call.writes[i].key = key

\* C13, amended: 'all_properties_meta' is created with its parent, not kept
\* with it: it is stored only by a call that stored 'all_properties' first,
\* in the same call and with the same timeout, and both are in the cache
\* right after that call; it is never made present in another way.
C13_MetaWrittenWithParent ==
    [][/\ (META_KEY \notin DOMAIN cache /\ META_KEY \in DOMAIN cache')
              => Wrote(last', META_KEY)
       /\ Wrote(last', META_KEY)
              => /\ last'.writes = <<SetCall(ALL_KEY, TTL_ALL), SetCall(META_KEY, TTL_META)>>
                 /\ {ALL_KEY, META_KEY} \subseteq DOMAIN cache'
                 /\ cache'[META_KEY].ttl = cache'[ALL_KEY].ttl
                 /\ cache'[META_KEY].val.n = Len(cache'[ALL_KEY].val.rows)]_vars

\* get_all_properties has just stored the rows and their metadata.
C13_Witness ==
    /\ last.op = "get_all_properties"
    /\ Wrote(last, META_KEY) /\ Wrote(last, ALL_KEY)
    /\ {ALL_KEY, META_KEY} \subseteq DOMAIN cache

\* C14, as stated: after get_properties_by_location has missed and returned
\* for a location, the next call, for any case variant of that location,
\* uses the same key and hits the entry the first call wrote.
C14_CaseVariantHits ==
    [][(/\ last.op = "get_properties_by_location" /\ ~last.hit /\ ~last.raised
        /\ last'.op = "get_properties_by_location" /\ last'.failed # "get"
        /\ CaseVariant(last.location, last'.location))
          => /\ LocationKey(last'.location) = LocationKey(last.location)
             /\ last'.hit /\ last'.ret = last.ret]_vars

\* C14, amended: the same for two locations that str.lower() makes equal,
\* as it does two spellings that differ in the case of unaccented letters.
C14_SameLowerHits ==
    [][(/\ last.op = "get_properties_by_location" /\ ~last.hit /\ ~last.raised
        /\ last'.op = "get_properties_by_location" /\ last'.failed # "get"
        /\ LowerStr(last.location) = LowerStr(last'.location))
          => /\ LocationKey(last'.location) = LocationKey(last.location)
             /\ last'.hit /\ last'.ret = last.ret
             /\ cache' = cache]_vars

\* A location has just been read from the entry that a call for another
\* spelling of it wrote.
C14_Witness ==
    /\ last.op = "get_properties_by_location" /\ last.hit
    /\ last.prev = "same_lower_miss"
    /\ last.ret = cache[LocationKey(last.location)].val

\* C15: when get_properties_by_price_range is called right after a call of
\* it that missed and returned, with the same arguments it uses the same key
\* and hits; with bounds of equal value but another textual form (2 and 2.0)
\* it uses another key, is never served from the first call's entry, and,
\* its own key being absent, misses, queries, and on return has stored a
\* second entry beside the first.
C15_TextualPriceKey ==
    [][(/\ last.op = "get_properties_by_price_range" /\ ~last.hit /\ ~last.raised
        /\ last'.op = "get_properties_by_price_range" /\ last'.failed # "get")
          => LET k1 == PriceKey(last.range[1], last.range[2])
                 k2 == PriceKey(last'.range[1], last'.range[2])
             IN /\ last'.range = last.range
                      => k2 = k1 /\ last'.hit /\ last'.ret = last.ret
                /\ (/\ last'.range # last.range
                    /\ \A i \in 1..2 : last'.range[i].v = last.range[i].v)
                      => /\ k2 # k1
                         /\ last'.hit => (k2 \in DOMAIN cache /\ last'.ret = cache[k2].val)
                         /\ k2 \notin DOMAIN cache
                                => /\ ~last'.hit /\ last'.queries = 1
                                   /\ ~last'.raised
                                        => /\ {k1, k2} \subseteq DOMAIN cache'
                                           /\ Wrote(last', k2)
                                           /\ cache'[k1] = cache[k1]]_vars

\* The range (1, 2.0) or (1, 2) has just been read right after the other
\* one was: it missed, and both entries are in the cache.
C15_Witness ==
    /\ last.op = "get_properties_by_price_range" /\ ~last.hit /\ ~last.raised
    /\ last.prev = "equal_value_miss"
    /\ {PriceKey(r[1], r[2]) : r \in PriceInputs} \subseteq DOMAIN cache
    /\ Cardinality({PriceKey(r[1], r[2]) : r \in PriceInputs}) = 2

\* C16: a call of get_all_properties, get_properties_by_location or
\* get_properties_by_price_range that hits returns the value held under its
\* key and changes nothing: no query, no cache.set, every entry of the cache
\* as it was, time to live included, and the backing store as it was.
C16_HitChangesNothing ==
    [][(last'.op \in ReadOps /\ last'.hit)
          => /\ ~last'.raised
             /\ KeyOf(last') \in DOMAIN cache
             /\ last'.ret = cache[KeyOf(last')].val
             /\ last'.queries = 0 /\ last'.sets = <<>> /\ last'.writes = <<>>
             /\ cache' = cache
             /\ db' = db]_vars

\* get_all_properties has just hit an entry that has used up part of its
\* time to live.
C16_Witness ==
    /\ last.op = "get_all_properties" /\ last.hit
    /\ ALL_KEY \in DOMAIN cache
    /\ cache[ALL_KEY].ttl < cache[ALL_KEY].timeout
    /\ last.ret = cache[ALL_KEY].val

\* The keys in the cache before the step that are not in it after.
Removed == DOMAIN cache \ DOMAIN cache'

\* The keys in the cache before the step that match a pattern whose
\* cache.keys and cache.delete_many calls both returned during it.
Counted ==
    {k \in DOMAIN cache :
        \E i \in 1..Len(CACHE_PATTERNS) :
            i \notin last'.caught /\ <<CACHE_PATTERNS[i], k>> \in KeysMatching}

\* C17, as stated: the count invalidate_property_cache returns is the number
\* of keys that were in the cache before the call and are not after it.
C17_CountIsRemoved ==
    [][last'.op = "invalidate_property_cache"
          => last'.ret.n = Cardinality(Removed)]_vars

\* C17, amended: the count is the number of keys matching the patterns
\* whose cache.keys and cache.delete_many both returned; each was in the
\* cache before and is not after, and none is counted twice.  It is the
\* number of keys removed unless a delete_many raised after removing its
\* keys, which are then removed and not counted.  No key is added.
C17_CountIsDeletedByReturnedCalls ==
    [][last'.op = "invalidate_property_cache"
          => /\ ~last'.raised
             /\ last'.ret.n = Cardinality(Counted)
             /\ Counted \subseteq Removed
             /\ last'.failed # "delete_many_late" => Removed = Counted
             /\ DOMAIN cache' \subseteq DOMAIN cache]_vars

\* invalidate_property_cache has just counted the keys of some patterns
\* while the location pattern failed in delete_many after its keys had been
\* removed.
C17_Witness ==
    /\ last.op = "invalidate_property_cache"
    /\ last.failed = "delete_many_late" /\ last.caught = {3}
    /\ last.ret.n >= 2
    /\ DOMAIN cache \subseteq ExternalKeys

\* C18: get_cache_stats leaves the cache and the backing store as they
\* are, and when it returns, 'cached' is true exactly when 'all_properties'
\* is in the cache, 'metadata' is given only when 'cached' is true (and is
\* then what 'all_properties_meta' holds), and 'locations' and
\* 'price_ranges' are empty.
C18_StatsReadOnlyAndAccurate ==
    [][last'.op = "get_cache_stats"
          => /\ cache' = cache /\ db' = db
             /\ last'.sets = <<>> /\ last'.writes = <<>> /\ last'.queries = 0
             /\ ~last'.raised
                  => /\ last'.ret.cached = (ALL_KEY \in DOMAIN cache)
                     /\ last'.ret.metadata # None => last'.ret.cached
                     /\ last'.ret.cached => last'.ret.metadata = CacheGet(cache, META_KEY)
                     /\ last'.ret.locations = <<>>
                     /\ last'.ret.price_ranges = <<>>]_vars

\* get_cache_stats has just reported the rows as cached, with their
\* metadata, while a location entry and a price entry are in the cache.
C18_Witness ==
    /\ last.op = "get_cache_stats" /\ ~last.raised
    /\ last.ret.cached /\ last.ret.metadata # None
    /\ last.ret.locations = <<>> /\ last.ret.price_ranges = <<>>
    /\ \E l \in LocationInputs : LocationKey(l) \in DOMAIN cache
    /\ \E r \in PriceInputs : PriceKey(r[1], r[2]) \in DOMAIN cache

\* The key is none of 'all_properties' and 'all_properties_meta' and starts
\* with none of 'properties_location_', 'properties_price_' and 'property_'.
MatchesNoPattern(k) ==
    /\ k \notin {ALL_KEY, META_KEY}
    /\ ~HasPrefix(k, LOCATION_PREFIX)
    /\ ~HasPrefix(k, PRICE_PREFIX)
    /\ ~HasPrefix(k, PROPERTY_PREFIX)

\* C19: invalidate_property_cache leaves every entry whose key matches none
\* of its five patterns in the cache as it was, and neither queries nor
\* changes the backing store.
C19_InvalidateFrame ==
    [][last'.op = "invalidate_property_cache"
          => /\ \A k \in DOMAIN cache :
                    MatchesNoPattern(k) => (k \in DOMAIN cache' /\ cache'[k] = cache[k])
             /\ db' = db
             /\ last'.queries = 0]_vars

\* invalidate_property_cache has just removed entries of the program and
\* of 'property_*', and the two foreign entries are all the cache holds.
C19_Witness ==
    /\ last.op = "invalidate_property_cache"
    /\ last.ret.n >= 3
    /\ DOMAIN cache = ForeignKeys
    /\ \A k \in ForeignKeys : MatchesNoPattern(k)

====
